---- MODULE Spec2Model ----
(***************************************************************************)
(* The claim window and winner arbitration of the20dollargame server       *)
(* (src/server.js): the module-level window state, the close timers        *)
(* scheduled by setTimeout, the SQLite claims table and the POST /claim    *)
(* handler, cut at its await points.                                       *)
(*                                                                         *)
(* GET /state and GET /admin/claims are modelled the same way (reads).     *)
(*                                                                         *)
(* Node runs one callback at a time, so every action below is the code     *)
(* that runs between two awaits: the completion of the awaited operation   *)
(* together with the handler's continuation up to its next await or        *)
(* response.  The suspended handlers are kept as a bag of frames (their    *)
(* locals); time is counted in seconds.                                    *)
(***************************************************************************)
EXTENDS Integers, Sequences, FiniteSets, Bags, TLC

\* ------------------------------------------------------------------ bounds
\* Number of POST /claim requests received.
NumSubmits == 2
\* Number of times a window is opened (admin and cron together).
MaxOpens == 2
\* The clock stops advancing here.
MaxTime == 1
\* Number of GET requests in progress at a time.
MaxReads == 1

\* ?seconds=... of POST /admin/open and WINDOW_SECONDS of the cron job.
Durations == {1}

\* created_at >= now - 60000 (milliseconds), in seconds.
CountWindow == 60

\* ------------------------------------------------------------- strings
\* A request field: absent from the body, or a string (a sequence of
\* characters).
Undefined == [present |-> FALSE, text |-> <<>>]

Str(s) == [present |-> TRUE, text |-> s]

IsSpace(c) == c = " "

\* String.prototype.trim: drop leading and trailing white space.
RECURSIVE TrimLeft(_)
TrimLeft(s) ==
  IF s # <<>> /\ IsSpace(Head(s)) THEN TrimLeft(Tail(s)) ELSE s

RECURSIVE TrimRight(_)
TrimRight(s) ==
  IF s # <<>> /\ IsSpace(s[Len(s)])
  THEN TrimRight(SubSeq(s, 1, Len(s) - 1))
  ELSE s

Trim(s) == TrimRight(TrimLeft(s))

\* JavaScript truthiness of a field: undefined and "" are falsy, every
\* other string (white space included) is truthy.
Truthy(f) == f.present /\ f.text # <<>>

\* !payout_method || !payout_id
MissingFields(body) ==
  ~Truthy(body.payout_method) \/ ~Truthy(body.payout_id)

\* The request bodies submitted: both fields given (with padding), an
\* empty payout_id, no payout_method.
Bodies ==
  { [payout_method |-> Str(<<" ", "p">>), payout_id |-> Str(<<"a", " ">>)],
    [payout_method |-> Str(<<"p">>),      payout_id |-> Str(<<>>)],
    [payout_method |-> Undefined,         payout_id |-> Str(<<"a">>)] }

\* Bodies with a field of white space only.
BlankBodies ==
  { [payout_method |-> Str(<<"p">>), payout_id |-> Str(<<" ">>)],
    [payout_method |-> Str(<<" ", " ">>), payout_id |-> Str(<<"a">>)] }

\* ------------------------------------------------------------ responses
Resp(status, msg, winner, position) ==
  [status |-> status, msg |-> msg, winner |-> winner, position |-> position]

NoResp == Resp(0, "", FALSE, 0)

WindowClosedResp == Resp(400, "Window closed", FALSE, 0)

MissingFieldsResp == Resp(400, "Missing fields", FALSE, 0)

CaptchaFailedResp == Resp(400, "Captcha failed", FALSE, 0)

ServerErrorResp == Resp(500, "Server error", FALSE, 0)

OkResp(winner, position) == Resp(200, "", winner, position)

\* ---------------------------------------------------------------- state
VARIABLES
  now,              \* Date.now(), in seconds
  openWindow,       \* let openWindow
  winnerSelected,   \* let winnerSelected
  windowExpiresAt,  \* let windowExpiresAt
  timers,           \* pending setTimeout callbacks: a bag of due times
  epoch,            \* number of windows opened so far (history)
  claims,           \* rows of table claims, in id order
  arrived,          \* number of POST /claim requests received so far
  inflight,         \* the suspended POST /claim handlers: a bag of frames
  resp,             \* the response sent last
  reads             \* the suspended GET handlers: a bag of frames

vars == <<now, openWindow, winnerSelected, windowExpiresAt, timers, epoch,
          claims, arrived, inflight, resp, reads>>

window == <<openWindow, winnerSelected, windowExpiresAt>>

Init ==
  /\ now = 0
  /\ openWindow = FALSE
  /\ winnerSelected = FALSE
  /\ windowExpiresAt = 0
  /\ timers = EmptyBag
  /\ epoch = 0
  /\ claims = <<>>
  /\ arrived = 0
  /\ inflight = EmptyBag
  /\ resp = NoResp
  /\ reads = EmptyBag

\* ----------------------------------------------------------- the ledger
\* Faulty variant of the insert below: the key does not advance, so ids
\* repeat.
InsertClaimReusesId(b, at, e) ==
  Append(claims, [id            |-> 1,
                  payout_method |-> Trim(b.payout_method.text),
                  payout_id     |-> Trim(b.payout_id.text),
                  created_at    |-> at,
                  is_winner     |-> FALSE,
                  epoch         |-> e])

\* INSERT INTO claims (payout_method, payout_id, created_at): the id is
\* the AUTOINCREMENT key, is_winner takes its DEFAULT 0.  epoch records the
\* window that admitted the request (history).
InsertClaim(b, at, e) ==
  Append(claims, [id            |-> Len(claims) + 1,
                  payout_method |-> Trim(b.payout_method.text),
                  payout_id     |-> Trim(b.payout_id.text),
                  created_at    |-> at,
                  is_winner     |-> FALSE,
                  epoch         |-> e])

\* UPDATE claims SET is_winner=1 WHERE id=?
MarkWinner(id) ==
  [i \in DOMAIN claims |->
     IF claims[i].id = id THEN [claims[i] EXCEPT !.is_winner = TRUE]
     ELSE claims[i]]

\* Faulty variant of the count below: the WHERE clause is missing.
CountAll(t) ==
  Cardinality(DOMAIN claims)

\* SELECT COUNT(*) AS total FROM claims WHERE created_at >= ?
CountSince(t) ==
  Cardinality({i \in DOMAIN claims : claims[i].created_at >= t})

\* ------------------------------------------------------------ the clock
Tick ==
  /\ now < MaxTime
  /\ now' = now + 1
  /\ UNCHANGED <<reads, window, timers, epoch, claims, arrived, inflight,
                 resp>>

\* --------------------------------------------------------- OpenWindow
\* The assignments shared by POST /admin/open and the cron callback.
OpenWindowState(seconds) ==
  /\ openWindow' = TRUE
  /\ winnerSelected' = FALSE
  /\ windowExpiresAt' = now + seconds

\* Faulty variant of the scheduling below: no callback is registered.
ScheduleCloseNever(seconds) ==
  timers' = timers

\* setTimeout(() => openWindow = false, seconds * 1000): one more pending
\* callback; nothing is cleared.
ScheduleClose(seconds) ==
  timers' = timers (+) SetToBag({now + seconds})

AdminOpen(seconds) ==
  /\ epoch < MaxOpens
  /\ OpenWindowState(seconds)
  /\ ScheduleClose(seconds)
  /\ epoch' = epoch + 1
  /\ UNCHANGED <<reads, now, claims, arrived, inflight, resp>>

CronOpen(seconds) ==
  /\ epoch < MaxOpens
  /\ OpenWindowState(seconds)
  /\ ScheduleClose(seconds)
  /\ epoch' = epoch + 1
  /\ UNCHANGED <<reads, now, claims, arrived, inflight, resp>>

\* Faulty variant of the callback below: it also frees the winner slot.
CloseTimerClearsWinner(due) ==
  /\ BagIn(due, timers)
  /\ now >= due
  /\ openWindow' = FALSE
  /\ winnerSelected' = FALSE
  /\ timers' = timers (-) SetToBag({due})
  /\ UNCHANGED <<reads, now, windowExpiresAt, epoch, claims, arrived,
                 inflight, resp>>

\* A setTimeout callback runs no sooner than its delay: openWindow = false.
CloseTimer(due) ==
  /\ BagIn(due, timers)
  /\ now >= due
  /\ openWindow' = FALSE
  /\ timers' = timers (-) SetToBag({due})
  /\ UNCHANGED <<reads, now, winnerSelected, windowExpiresAt, epoch, claims,
                 arrived, inflight, resp>>

\* --------------------------------------------------------- POST /claim
\* The frame of a handler suspended at await verifyCaptcha(captcha).  pc is
\* the await the handler is suspended at; body, capRes, now, position and
\* claimId are its locals of the same names; ep is the epoch whose window
\* admitted the request (history).
Frame(b, e) ==
  [pc |-> "captcha", body |-> b, ep |-> e, capRes |-> "none", now |-> 0,
   position |-> 0, claimId |-> 0]

\* The handler with frame f is suspended again, with frame g.
Await(f, g) ==
  /\ inflight' = (inflight (-) SetToBag({f})) (+) SetToBag({g})
  /\ UNCHANGED resp

\* res.json(...) / res.status(...).json(...) and the handler returns.
Respond(f, r) ==
  /\ inflight' = inflight (-) SetToBag({f})
  /\ resp' = r

\* Faulty variant of the rejection below: it also gives up the winner slot.
RejectClosedResetsWinner ==
  /\ resp' = WindowClosedResp
  /\ winnerSelected' = FALSE
  /\ UNCHANGED <<reads, now, openWindow, windowExpiresAt, timers, epoch, claims,
                 inflight>>

\* if (!openWindow) return res.status(400)... "Window closed"
RejectClosed ==
  /\ resp' = WindowClosedResp
  /\ UNCHANGED <<reads, now, window, timers, epoch, claims, inflight>>

\* The handler up to its first await: the window check, the field check,
\* then the call of verifyCaptcha.
Claim(b) ==
  /\ arrived < NumSubmits
  /\ arrived' = arrived + 1
  /\ IF ~openWindow
     THEN RejectClosed
     ELSE /\ IF MissingFields(b)
             THEN /\ resp' = MissingFieldsResp
                  /\ UNCHANGED inflight
             ELSE /\ inflight' = inflight (+) SetToBag({Frame(b, epoch)})
                  /\ UNCHANGED resp
          /\ UNCHANGED <<reads, now, window, timers, epoch, claims>>

\* What verifyCaptcha can come back with: {success: true}, a reply without
\* success, or a rejected promise (fetch or resp.json() throws).
CaptchaOutcomes == {"success", "fail", "throw"}

\* Faulty variant of the test below: capRes.success is not looked at.
CaptchaNotChecked(r) == TRUE

\* if (!capRes.success)
CaptchaPassed(r) == r = "success"

\* await verifyCaptcha(captcha) settles; on success the handler reads
\* Date.now() and issues the COUNT query.
CaptchaDone(f, r) ==
  /\ BagIn(f, inflight)
  /\ f.pc = "captcha"
  /\ IF r = "throw"
     THEN Respond(f, ServerErrorResp)
     ELSE IF ~CaptchaPassed(r)
     THEN Respond(f, CaptchaFailedResp)
     ELSE Await(f, [f EXCEPT !.pc = "count", !.capRes = r, !.now = now])
  /\ UNCHANGED <<reads, now, window, timers, epoch, claims, arrived>>

\* await db.get(COUNT) settles: position = count.total + 1, then the INSERT
\* is issued; a rejected query lands in the catch block.
CountDone(f, ok) ==
  /\ BagIn(f, inflight)
  /\ f.pc = "count"
  /\ IF ok
     THEN Await(f, [f EXCEPT !.pc = "insert",
                             !.position = CountSince(f.now - CountWindow) + 1])
     ELSE Respond(f, ServerErrorResp)
  /\ UNCHANGED <<reads, now, window, timers, epoch, claims, arrived>>

\* if (!winnerSelected) { winnerSelected = true; await db.run(UPDATE) }:
\* the check and the assignment run in one callback, the UPDATE is awaited.
\* f is the suspended frame, g the frame with claimId set.
WinnerGate(f, g) ==
  IF ~winnerSelected
  THEN /\ winnerSelected' = TRUE
       /\ Await(f, [g EXCEPT !.pc = "update"])
  ELSE /\ Respond(f, OkResp(FALSE, g.position))
       /\ UNCHANGED winnerSelected

\* await db.run(INSERT) settles: claimId = r.lastID, then the winner gate;
\* a rejected INSERT lands in the catch block.
InsertDone(f, ok) ==
  /\ BagIn(f, inflight)
  /\ f.pc = "insert"
  /\ IF ok
     THEN /\ claims' = InsertClaim(f.body, f.now, f.ep)
          /\ WinnerGate(f, [f EXCEPT !.claimId = Len(claims) + 1])
     ELSE /\ Respond(f, ServerErrorResp)
          /\ UNCHANGED <<claims, winnerSelected>>
  /\ UNCHANGED <<reads, now, openWindow, windowExpiresAt, timers, epoch,
                 arrived>>

\* Faulty variant of the continuation below: a rejected UPDATE is swallowed
\* and the handler still answers winner:true.
UpdateDoneSwallowsError(f, ok) ==
  /\ BagIn(f, inflight)
  /\ f.pc = "update"
  /\ IF ok
     THEN /\ claims' = MarkWinner(f.claimId)
          /\ Respond(f, OkResp(TRUE, f.position))
     ELSE /\ Respond(f, OkResp(TRUE, f.position))
          /\ UNCHANGED claims
  /\ UNCHANGED <<reads, now, window, timers, epoch, arrived>>

\* await db.run(UPDATE) settles: winner = true and the success response;
\* a rejected UPDATE lands in the catch block.
UpdateDone(f, ok) ==
  /\ BagIn(f, inflight)
  /\ f.pc = "update"
  /\ IF ok
     THEN /\ claims' = MarkWinner(f.claimId)
          /\ Respond(f, OkResp(TRUE, f.position))
     ELSE /\ Respond(f, ServerErrorResp)
          /\ UNCHANGED claims
  /\ UNCHANGED <<reads, now, window, timers, epoch, arrived>>

\* ------------------------------------------ GET /state, GET /admin/claims
\* ORDER BY created_at DESC over the rows S; rows of one millisecond come
\* in an order SQLite chooses.
RECURSIVE NewestFirst(_)
NewestFirst(S) ==
  IF S = {} THEN <<>>
  ELSE LET i == CHOOSE k \in S :
                  \A j \in S : claims[j].created_at <= claims[k].created_at
       IN  <<claims[i]>> \o NewestFirst(S \ {i})

\* LIMIT n
Limit(rows, n) == SubSeq(rows, 1, IF Len(rows) < n THEN Len(rows) ELSE n)

\* Math.max(0, Math.floor((windowExpiresAt - Date.now()) / 1000)); the
\* clock of the model counts whole seconds.
Remaining ==
  IF windowExpiresAt - now > 0 THEN windowExpiresAt - now ELSE 0

\* The frame of a GET handler suspended at await db.all(...): remaining is
\* the local of GET /state, computed before the query is issued.
ReadFrame(route, remaining) == [route |-> route, remaining |-> remaining]

\* SELECT payout_id FROM claims WHERE is_winner=1 ORDER BY created_at DESC
\* LIMIT 10
Recent ==
  LET rows == Limit(NewestFirst({i \in DOMAIN claims : claims[i].is_winner}),
                    10)
  IN  [k \in DOMAIN rows |-> rows[k].payout_id]

\* res.json({ openWindow, remaining, recent }): openWindow is read when the
\* response is built, after the query.
StateReply(f) ==
  [openWindow |-> openWindow, remaining |-> f.remaining, recent |-> Recent]

\* res.json({ ok: true, rows }) of SELECT * FROM claims ORDER BY created_at
\* DESC LIMIT 100
ClaimsReply ==
  LET rows == Limit(NewestFirst(DOMAIN claims), 100)
  IN  [ok |-> TRUE,
       rows |-> [k \in DOMAIN rows |->
                   [id            |-> rows[k].id,
                    payout_method |-> rows[k].payout_method,
                    payout_id     |-> rows[k].payout_id,
                    created_at    |-> rows[k].created_at,
                    is_winner     |-> rows[k].is_winner]]]

\* GET /state up to its await: remaining is computed, the query is issued.
GetState ==
  /\ BagCardinality(reads) < MaxReads
  /\ reads' = reads (+) SetToBag({ReadFrame("state", Remaining)})
  /\ UNCHANGED <<now, window, timers, epoch, claims, arrived, inflight, resp>>

\* Faulty variant of the continuation below: a window found expired is
\* closed on the way.
StateDoneClosesExpired(f, ok) ==
  /\ BagIn(f, reads)
  /\ f.route = "state"
  /\ reads' = reads (-) SetToBag({f})
  /\ openWindow' = (openWindow /\ now < windowExpiresAt)
  /\ UNCHANGED <<now, winnerSelected, windowExpiresAt, timers, epoch, claims,
                 arrived, inflight, resp>>

\* await db.all(...) of GET /state settles: the client receives
\* StateReply(f).  The handler has no try/catch: when the query is rejected
\* no response is sent.
StateDone(f, ok) ==
  /\ BagIn(f, reads)
  /\ f.route = "state"
  /\ reads' = reads (-) SetToBag({f})
  /\ UNCHANGED <<now, window, timers, epoch, claims, arrived, inflight, resp>>

\* GET /admin/claims with the admin token, up to its await.
ListClaims ==
  /\ BagCardinality(reads) < MaxReads
  /\ reads' = reads (+) SetToBag({ReadFrame("claims", 0)})
  /\ UNCHANGED <<now, window, timers, epoch, claims, arrived, inflight, resp>>

\* await db.all(...) of GET /admin/claims settles: the client receives
\* ClaimsReply, or 500 "Server error" from the catch block.
ListDone(f, ok) ==
  /\ BagIn(f, reads)
  /\ f.route = "claims"
  /\ reads' = reads (-) SetToBag({f})
  /\ UNCHANGED <<now, window, timers, epoch, claims, arrived, inflight, resp>>

\* ------------------------------------------------------- specification
Frames == BagToSet(inflight)

Next ==
  \/ Tick
  \/ \E seconds \in Durations : AdminOpen(seconds)
  \/ \E seconds \in Durations : CronOpen(seconds)
  \/ \E due \in BagToSet(timers) : CloseTimer(due)
  \/ \E b \in Bodies : Claim(b)
  \/ \E f \in Frames, r \in CaptchaOutcomes : CaptchaDone(f, r)
  \/ \E f \in Frames, ok \in BOOLEAN : CountDone(f, ok)
  \/ \E f \in Frames, ok \in BOOLEAN : InsertDone(f, ok)
  \/ \E f \in Frames, ok \in BOOLEAN : UpdateDone(f, ok)

Spec == Init /\ [][Next]_vars

\* The same server, receiving also bodies whose fields are white space.
FieldNext ==
  \/ Next
  \/ \E b \in BlankBodies : Claim(b)

FieldSpec == Init /\ [][FieldNext]_vars

\* The handler's continuations run once the awaited storage operation has
\* settled, and SQLite settles every operation (with a row or an error);
\* a due timer callback runs.  Nothing makes the captcha verifier answer:
\* fetch is called without a timeout.
StorageStep ==
  \E f \in Frames, ok \in BOOLEAN :
    CountDone(f, ok) \/ InsertDone(f, ok) \/ UpdateDone(f, ok)

TimerStep == \E due \in BagToSet(timers) : CloseTimer(due)

FairSpec == Spec /\ WF_vars(StorageStep) /\ WF_vars(TimerStep)

\* The server after it has rejected one request while no window had been
\* opened yet.
RejectedInit ==
  /\ now = 0
  /\ openWindow = FALSE
  /\ winnerSelected = FALSE
  /\ windowExpiresAt = 0
  /\ timers = EmptyBag
  /\ epoch = 0
  /\ claims = <<>>
  /\ arrived = 1
  /\ inflight = EmptyBag
  /\ resp = WindowClosedResp
  /\ reads = EmptyBag

\* The close of the window under the fairness of FairSpec.
CloseSpec ==
  RejectedInit /\ [][Next]_vars /\ WF_vars(StorageStep) /\ WF_vars(TimerStep)

\* The same server, serving also GET /state and GET /admin/claims.
ReadNext ==
  \/ Next
  \/ GetState
  \/ \E f \in BagToSet(reads), ok \in BOOLEAN : StateDone(f, ok)
  \/ ListClaims
  \/ \E f \in BagToSet(reads), ok \in BOOLEAN : ListDone(f, ok)

ReadSpec == RejectedInit /\ [][ReadNext]_vars

\* A minute passes while the server is idle: no request is in progress and
\* every close timer has run.
LongTick ==
  /\ now <= MaxTime
  /\ inflight = EmptyBag
  /\ timers = EmptyBag
  /\ now' = now + CountWindow
  /\ UNCHANGED <<window, timers, epoch, claims, arrived, inflight, resp,
                 reads>>

\* The same server over a time span longer than the minute of the count.
PositionNext ==
  \/ Next
  \/ LongTick

PositionSpec == Init /\ [][PositionNext]_vars

\* ---------------------------------------------------------------- claims
\* The rows of epoch e, and those of them marked winner.
ClaimsOf(e) == {i \in DOMAIN claims : claims[i].epoch = e}

WinnersOf(e) == {i \in ClaimsOf(e) : claims[i].is_winner}

\* The requests of epoch e that have not been answered yet.
PendingOf(e) == {f \in Frames : f.ep = e}

\* A step in which a request arrives.
Arrives == arrived' = arrived + 1

\* A step of the handler with frame f.
Leaves(f) == CopiesIn(f, inflight') < CopiesIn(f, inflight)

\* A step in which the handler with frame f sends its response.
Answers(f) == BagIn(f, inflight) /\ inflight' = inflight (-) SetToBag({f})

\* C1: once every request of an epoch has completed and at least one of
\* them recorded a claim, exactly one claim of the epoch is marked winner.
C1_ExactlyOneWinner ==
  \A e \in 1..epoch :
    (PendingOf(e) = {} /\ ClaimsOf(e) # {}) => Cardinality(WinnersOf(e)) = 1

\* C2: in every state, each epoch has at most one claim marked winner,
\* also when a window is opened while requests of the previous one are in
\* flight.
C2_AtMostOneWinnerPerEpoch ==
  \A e \in 1..epoch : Cardinality(WinnersOf(e)) <= 1

\* C3: a request that arrives when now >= windowExpiresAt is answered
\* "Window closed", whether or not the close timer has fired.
C3_ClosedWindowRejection ==
  [][(Arrives /\ now >= windowExpiresAt)
       => (resp' = WindowClosedResp /\ inflight' = inflight)]_vars

\* C4: the window opened last is open until its expiry (no timer of an
\* earlier window closes it), and at most one close timer is pending.
C4_ReopenCancelsClose ==
  /\ (epoch > 0 /\ now < windowExpiresAt) => openWindow
  /\ BagCardinality(timers) <= 1

\* C5: every OpenWindow(d) leaves openWindow = TRUE, winnerSelected = FALSE
\* and windowExpiresAt = now + d, and the request that then reaches the
\* winner gate first (it finds winnerSelected = FALSE) has its claim marked
\* winner when it is answered.
C5_ReopenResetsWinnerPool ==
  [][/\ epoch' # epoch =>
          /\ openWindow'
          /\ ~winnerSelected'
          /\ \E d \in Durations :
               /\ windowExpiresAt' = now + d
               /\ timers' = timers (+) SetToBag({now + d})
     /\ \A f \in Frames :
          (f.pc = "update" /\ Answers(f)) => claims'[f.claimId].is_winner
    ]_vars

\* The part of C5 that holds: the state right after OpenWindow(d).
C5_OpenWindowState ==
  [][epoch' # epoch =>
       /\ openWindow'
       /\ ~winnerSelected'
       /\ \E d \in Durations : windowExpiresAt' = now + d]_vars

\* C6: a request answered "Window closed" leaves the ledger and the window
\* state as they were.
C6_RejectionChangesNothing ==
  [][(Arrives /\ inflight' = inflight /\ resp' = WindowClosedResp) =>
       UNCHANGED <<claims, openWindow, winnerSelected, windowExpiresAt,
                   timers>>]_vars

\* C6 happens: a request was answered "Window closed" while the ledger
\* held a winner and winnerSelected was set.
C6_Witness ==
  /\ resp = WindowClosedResp
  /\ winnerSelected
  /\ \E i \in DOMAIN claims : claims[i].is_winner

\* C7: every request admitted past the field check, and every row of the
\* ledger, has a payout_method and a payout_id that are non-empty after
\* trimming.
C7_ValidationAfterTrim ==
  /\ \A f \in Frames :
       /\ Trim(f.body.payout_method.text) # <<>>
       /\ Trim(f.body.payout_id.text) # <<>>
  /\ \A i \in DOMAIN claims :
       /\ claims[i].payout_method # <<>>
       /\ claims[i].payout_id # <<>>

\* C8: captcha verification comes before every ledger mutation: a handler
\* past the captcha await holds a successful verification, the step that
\* settles the captcha await changes neither the ledger nor winnerSelected,
\* and the ledger and winnerSelected are only ever changed (to a new row,
\* a winner mark, TRUE) by a handler holding a successful verification.
C8_CaptchaBeforeLedger ==
  [][/\ \A f \in BagToSet(inflight') :
          f.pc # "captcha" => f.capRes = "success"
     /\ \A f \in Frames :
          (f.pc = "captcha" /\ Leaves(f))
            => UNCHANGED <<claims, winnerSelected>>
     /\ (claims' # claims \/ (winnerSelected' /\ ~winnerSelected)) =>
          \E f \in Frames :
            /\ f.pc \in {"insert", "update"}
            /\ f.capRes = "success"
            /\ Leaves(f)
    ]_vars

\* C8 happens: a request was answered "Captcha failed" while the ledger
\* holds the claim of a verified one.
C8_Witness ==
  /\ resp = CaptchaFailedResp
  /\ claims # <<>>

\* C9: a handler that ends at the captcha await (the verifier answered
\* without success, or failed) answers with HTTP 400.
C9_CaptchaErrorIsValidationError ==
  [][\A f \in Frames :
       (f.pc = "captcha" /\ Answers(f)) => resp'.status = 400]_vars

\* C10: every request received is eventually answered.
C10_EverySubmitAnswered ==
  \A k \in 1..NumSubmits :
    (arrived >= k) ~> (arrived - BagCardinality(inflight) >= k)

\* C11: for submissions handled one after another (none in flight when
\* the next arrives): one that arrives at or after the window's expiry is
\* answered "Window closed"; an accepted one is answered winner:true if it
\* set winnerSelected and winner:false otherwise, and when it is answered
\* winner:false an earlier claim of its epoch is the winner; winnerSelected
\* goes from FALSE to TRUE only in the step that records a claim.
C11_SequentialScenario ==
  [][/\ (Arrives /\ inflight = EmptyBag /\ now >= windowExpiresAt)
          => resp' = WindowClosedResp
     /\ \A f \in Frames :
          (Answers(f) /\ BagCardinality(inflight) = 1 /\ resp'.status = 200
             /\ ~resp'.winner)
            => \E i \in DOMAIN claims' :
                 /\ claims'[i].epoch = f.ep
                 /\ claims'[i].is_winner
                 /\ i < Len(claims')
     /\ (winnerSelected' /\ ~winnerSelected) => Len(claims') = Len(claims) + 1
    ]_vars

\* C12: the ids of the ledger are strictly increasing in insertion order
\* (hence pairwise distinct), every handler about to mark a winner holds
\* the id of the row it inserted itself, no two handlers hold the same id,
\* and the winner update changes that row only.
C12_UniqueIds ==
  [][/\ \A i, j \in DOMAIN claims' : i < j => claims'[i].id < claims'[j].id
     /\ \A f \in BagToSet(inflight') :
          f.pc = "update" =>
            /\ CopiesIn(f, inflight') = 1
            /\ \A g \in BagToSet(inflight') :
                 (g.pc = "update" /\ g # f) => g.claimId # f.claimId
            /\ \E i \in DOMAIN claims' :
                 /\ claims'[i].id = f.claimId
                 /\ claims'[i].created_at = f.now
                 /\ claims'[i].epoch = f.ep
                 /\ claims'[i].payout_id = Trim(f.body.payout_id.text)
     /\ \A f \in Frames :
          (f.pc = "insert" /\ Leaves(f) /\ claims' # claims) =>
            /\ Len(claims') = Len(claims) + 1
            /\ \A g \in BagToSet(inflight') :
                 g.pc = "update" /\ ~BagIn(g, inflight)
                   => g.claimId = claims'[Len(claims')].id
     /\ \A f \in Frames :
          (f.pc = "update" /\ Leaves(f)) =>
            \A i \in DOMAIN claims :
              claims[i].id # f.claimId => claims'[i] = claims[i]
    ]_vars

\* C12 happens: two requests inserted their claims while both were in
\* flight, and one of them is about to mark its own row.
C12_Witness ==
  /\ Len(claims) = 2
  /\ \E f \in Frames : f.pc = "update" /\ f.claimId = 2

\* C14: winnerSelected holds exactly when a claim of the current epoch is
\* marked winner in the ledger.
C14_GateIsAtomic ==
  winnerSelected <=> (WinnersOf(epoch) # {})

\* C16: a step of a POST /claim handler leaves openWindow and
\* windowExpiresAt alone and changes winnerSelected at most from FALSE to
\* TRUE; a close timer changes openWindow (to FALSE) only; winnerSelected
\* goes from TRUE to FALSE only when a window is opened.
C16_WindowFrame ==
  [][/\ (Arrives \/ \E f \in Frames : Leaves(f)) =>
          /\ UNCHANGED <<openWindow, windowExpiresAt>>
          /\ winnerSelected => winnerSelected'
     /\ (BagCardinality(timers') < BagCardinality(timers)) =>
          /\ ~openWindow'
          /\ UNCHANGED <<winnerSelected, windowExpiresAt>>
     /\ (winnerSelected /\ ~winnerSelected') => epoch' = epoch + 1
    ]_vars

\* C16 happens: a handler selected a winner, the window was opened again
\* (which freed the winner slot) and every close timer has fired.
C16_Witness ==
  /\ epoch = 2
  /\ ~winnerSelected
  /\ timers = EmptyBag
  /\ \E i \in DOMAIN claims : claims[i].is_winner

\* C18: a handler admitted by the current window neither inserts its claim
\* nor marks it winner at a time now >= windowExpiresAt.
C18_NoAcceptanceAfterExpiry ==
  [][\A f \in Frames :
       (Leaves(f) /\ f.ep = epoch /\ now >= windowExpiresAt)
         => claims' = claims]_vars

\* C19: a success response says winner:true exactly when the row its
\* handler inserted is marked winner at that moment, and a row is marked
\* winner only in the step in which its handler answers winner:true.
C19_ResponseAgreesWithLedger ==
  [][/\ \A f \in Frames :
          (Answers(f) /\ resp'.status = 200) =>
            LET own == IF f.pc = "insert" THEN Len(claims') ELSE f.claimId
            IN  /\ own \in DOMAIN claims'
                /\ claims'[own].created_at = f.now
                /\ claims'[own].epoch = f.ep
                /\ resp'.winner <=> claims'[own].is_winner
     /\ \A i \in DOMAIN claims :
          (claims'[i].is_winner /\ ~claims[i].is_winner) =>
            \E f \in Frames :
              /\ Answers(f)
              /\ f.claimId = claims[i].id
              /\ resp' = OkResp(TRUE, f.position)
     /\ \A i \in DOMAIN claims' \ DOMAIN claims : ~claims'[i].is_winner
    ]_vars

\* C19 happens: the last response was winner:false while the ledger holds
\* a winner and a loser.
C19_Witness ==
  /\ resp.status = 200
  /\ ~resp.winner
  /\ \E i, j \in DOMAIN claims : claims[i].is_winner /\ ~claims[j].is_winner

\* C15: once the clock has reached windowExpiresAt of the window opened
\* last, the window is eventually closed unless a window is opened again;
\* and a closed window stays closed until a window is opened.
C15_AutomaticClose ==
  /\ \A e \in 1..MaxOpens :
       (epoch = e /\ now >= windowExpiresAt) ~> (~openWindow \/ epoch # e)
  /\ [][(~openWindow /\ openWindow') => epoch' = epoch + 1]_vars

\* C15 happens: the window opened last has expired, its timer has run and
\* the window is closed.
C15_Witness ==
  /\ epoch >= 1
  /\ now >= windowExpiresAt
  /\ ~openWindow
  /\ ~BagIn(windowExpiresAt, timers)

\* C13: no step of a GET /state or GET /admin/claims handler changes
\* openWindow, windowExpiresAt, winnerSelected, the pending close timers or
\* any row of the ledger (nor the POST /claim handlers in progress).
C13_ReadsChangeNothing ==
  [][reads' # reads =>
       UNCHANGED <<openWindow, windowExpiresAt, winnerSelected, timers,
                   claims, epoch, inflight>>]_vars

\* C13 happens: a GET /state is waiting for its query since before the
\* clock advanced, in an open window with a recorded claim and a close
\* timer pending.
C13_Witness ==
  /\ openWindow
  /\ claims # <<>>
  /\ timers # EmptyBag
  /\ \E f \in BagToSet(reads) : f.route = "state" /\ f.remaining > Remaining

\* C20: the reply of GET /state has openWindow = true exactly when
\* now < windowExpiresAt, and remaining >= 0.
C20_StateCoherence ==
  [][\A f \in BagToSet(reads) :
       (f.route = "state" /\ reads' = reads (-) SetToBag({f})) =>
         /\ StateReply(f).openWindow <=> (now < windowExpiresAt)
         /\ StateReply(f).remaining >= 0]_vars

\* C17: when the COUNT query of a handler settles, its position is 1 + the
\* number of rows with created_at >= now - 60 s in the ledger at that
\* moment, its own row not being inserted yet; a success response carries
\* that position, which is at least 1.
C17_Position ==
  [][/\ \A g \in BagToSet(inflight') :
          (g.pc = "insert" /\ CopiesIn(g, inflight') > CopiesIn(g, inflight))
            => g.position =
                 1 + Cardinality({i \in DOMAIN claims :
                                    claims[i].created_at >= g.now - 60})
     /\ \A f \in Frames :
          (Answers(f) /\ resp'.status = 200) =>
            /\ resp'.position = f.position
            /\ resp'.position >= 1
    ]_vars

\* C17 happens: a handler has counted while the ledger held a row older
\* than a minute, and did not count it.
C17_Witness ==
  \E f \in Frames :
    /\ f.pc = "insert"
    /\ f.position = 1
    /\ Len(claims) = 1
    /\ \E i \in DOMAIN claims : claims[i].created_at < f.now - CountWindow

====
